---------------------------- MODULE Spec2Model ----------------------------
(***************************************************************************)
(* Model of alx-polly:                                                     *)
(*   submitEmojiResponse  (app/lib/actions/response-actions.ts)            *)
(*   submitVote, createPoll, deletePoll, updatePoll                        *)
(*                        (app/lib/actions/poll-actions.ts)                *)
(* over the tables declared in the README's SQL (UNIQUE(poll_id, user_id), *)
(* cascading foreign keys, row-level-security policies), and of the login  *)
(* and register pages, PollCreateForm and the middleware's updateSession.  *)
(*                                                                         *)
(* Strings that the code inspects character by character are modelled as   *)
(* sequences: a poll identifier is a sequence of one-character strings, an *)
(* emoji is a sequence of UTF-16 code units.                               *)
(***************************************************************************)
EXTENDS Integers, Sequences, FiniteSets, Bags, TLC

VARIABLES polls, poll_options, votes, calls, creation, op, logins, registered, signups, form, request

\* the tables and the server actions working on them
storeVars == <<polls, poll_options, votes, calls, creation, op>>

\* the pages and the middleware
uiVars == <<logins, registered, signups, form, request>>

vars == <<storeVars, uiVars>>

NULL == "null"

(***************************************************************************)
(* Bounds of the model.                                                    *)
(***************************************************************************)
MaxCalls == 2
MaxRows == 3
MaxCreated == 1

CallIds == 1..MaxCalls

(***************************************************************************)
(* Input alphabets.                                                        *)
(***************************************************************************)
Rep(c, n) == [i \in 1..n |-> c]

UuidOf(c) == Rep(c, 8) \o <<"-">> \o Rep(c, 4) \o <<"-">> \o Rep(c, 4) \o <<"-">> \o Rep(c, 4) \o <<"-">> \o Rep(c, 12)

\* "11111111-1111-1111-1111-111111111111": a poll present in the store
Poll1 == UuidOf("1")
\* "aaaaaaaa-....": UUID-shaped, but no such poll row
Poll2 == UuidOf("a")
\* "not-a-uuid"
NotAUuid == <<"n", "o", "t", "-", "a", "-", "u", "u", "i", "d">>
\* 36 characters with the dashes in place, but 'g' is not a hex digit
BadHex == UuidOf("g")
\* 32 hex digits without separators
NoDashes == Rep("1", 32)

PollIdInputs == {Poll1, Poll2, NotAUuid, BadHex, NoDashes}

\* the identifiers used where calls run concurrently
FewPollIds == {Poll1, NotAUuid}

\* U+1F44D (thumbs up), one code point, two UTF-16 code units
ThumbsUp == <<55357, 56397>>
\* U+2764 (heavy black heart), one code point, one code unit
Heart == <<10084>>
\* "ab"
TwoLetters == <<97, 98>>
\* ""
EmptyStr == <<>>
\* U+2764 U+FE0F (red heart with its variation selector), two code points
HeartVs16 == <<10084, 65039>>
\* a high surrogate on its own
LoneSurrogate == <<55357>>

EmojiInputs == {ThumbsUp, Heart, TwoLetters, EmptyStr, HeartVs16, LoneSurrogate}

\* the contents used where calls run concurrently
FewEmojis == {ThumbsUp, Heart}

Users == {"u1", "u2"}
Sessions == Users \cup {NULL}

Option1 == "o1"
Option2 == "o2"
OptionInputs == {Option1}

\* the user who created the poll present from the start
Creator1 == "u1"

\* identifiers the store generates for new rows (gen_random_uuid())
FreshPollId(n) == UuidOf(<<"a", "b", "c", "d">>[n])

FreshOptionId(n, i) == "n" \o ToString(n) \o "_" \o ToString(i)

(***************************************************************************)
(* Texts returned to the caller.                                           *)
(***************************************************************************)
MsgLogin == "You must be logged in to respond."
MsgEmoji == "Emoji must be a single character."
MsgUuid == "Invalid uuid"
MsgDuplicate == "You have already responded with this emoji."
MsgUnexpected == "An unexpected error occurred on the server."

\* messages the store attaches to its errors
MsgNoRows == "JSON object requested, multiple (or no) rows returned"
MsgUnique == "duplicate key value violates unique constraint \"votes_poll_id_user_id_key\""
MsgForeignKey == "insert or update on table \"votes\" violates foreign key constraint"
MsgRls == "new row violates row-level security policy for table \"votes\""
\* messages of failures that are not about the data (transport, timeout);
\* the empty message exercises the fallback text of the catch block
FaultMessages == {"fetch failed", ""}

Err(code, message) == [code |-> code, message |-> message]

NoError == Err(NULL, NULL)

(***************************************************************************)
(* Input validator: emojiResponseSchema.                                   *)
(***************************************************************************)
HexDigits == {"0", "1", "2", "3", "4", "5", "6", "7", "8", "9", "a", "b", "c", "d", "e", "f", "A", "B", "C", "D", "E", "F"}

DashPositions == {9, 14, 19, 24}

\* IsUuid without the test of the digits: only the length and the dashes
IsUuidDashesOnly(s) ==
    /\ Len(s) = 36
    /\ \A i \in DashPositions : s[i] = "-"

\* z.string().uuid(): 8-4-4-4-12 hexadecimal digits separated by dashes
IsUuid(s) ==
    /\ Len(s) = 36
    /\ \A i \in 1..36 : IF i \in DashPositions THEN s[i] = "-" ELSE s[i] \in HexDigits

IsHighSurrogate(u) == u >= 55296 /\ u <= 56319

IsLowSurrogate(u) == u >= 56320 /\ u <= 57343

\* str.length: the number of UTF-16 code units
CodeUnitLength(str) == Len(str)

\* Array.from(str).length: the string iterator yields one element per code
\* point, pairing a high surrogate with the low surrogate that follows it
RECURSIVE ArrayFromLength(_)
ArrayFromLength(str) ==
    IF str = <<>> THEN 0
    ELSE IF Len(str) >= 2 /\ IsHighSurrogate(str[1]) /\ IsLowSurrogate(str[2])
         THEN 1 + ArrayFromLength(SubSeq(str, 3, Len(str)))
         ELSE 1 + ArrayFromLength(Tail(str))

Issue(path, message) == [path |-> path, message |-> message]

\* SafeParse with the emoji key checked before the pollId key
SafeParseEmojiFirst(pollId, emoji) ==
    (IF ArrayFromLength(emoji) = 1 THEN <<>> ELSE <<Issue("emoji", MsgEmoji)>>)
    \o (IF IsUuid(pollId) THEN <<>> ELSE <<Issue("pollId", MsgUuid)>>)

\* emojiResponseSchema.safeParse({pollId, emoji}).error.issues: the object's
\* keys are checked in declaration order, every failing key adds an issue
SafeParse(pollId, emoji) ==
    (IF IsUuid(pollId) THEN <<>> ELSE <<Issue("pollId", MsgUuid)>>)
    \o (IF ArrayFromLength(emoji) = 1 THEN <<>> ELSE <<Issue("emoji", MsgEmoji)>>)

(***************************************************************************)
(* Results of submitEmojiResponse.                                         *)
(***************************************************************************)
Success == [success |-> TRUE, error |-> NULL]

Failure(message) == [success |-> FALSE, error |-> message]

\* value of the result field of a call that has not returned
Pending == [success |-> FALSE, error |-> "pending"]

\* GateResult with the session test left out
GateWithoutSession(user, pollId, emoji) ==
    IF SafeParse(pollId, emoji) # <<>> THEN Failure(SafeParse(pollId, emoji)[1].message)
    ELSE Pending

\* GateResult with the two gates in the other order
GateValidatesFirst(user, pollId, emoji) ==
    IF SafeParse(pollId, emoji) # <<>> THEN Failure(SafeParse(pollId, emoji)[1].message)
    ELSE IF user = NULL THEN Failure(MsgLogin)
    ELSE Pending

\* the gates passed before the first store call: session, then validation;
\* Pending means both gates were passed
GateResult(user, pollId, emoji) ==
    IF user = NULL THEN Failure(MsgLogin)
    ELSE IF SafeParse(pollId, emoji) # <<>> THEN Failure(SafeParse(pollId, emoji)[1].message)
    ELSE Pending

\* the path of the list page, not of the poll
PollsListPath(pollId) == <<"/", "p", "o", "l", "l", "s">>

\* `/polls/${pollId}`
PollPath(pollId) == <<"/", "p", "o", "l", "l", "s", "/">> \o pollId

\* the catch block: error.message || 'An unexpected error occurred ...'
CatchResult(error) ==
    Failure(IF error.message # "" THEN error.message ELSE MsgUnexpected)

(***************************************************************************)
(* The store: tables polls, poll_options and votes.  A row of votes is a   *)
(* record; a nullable text column holds <<>> for NULL and <<v>> for v.     *)
(* The votes table is the declared one (its foreign keys, its UNIQUE       *)
(* constraint, its insert policy) with the content and type columns that   *)
(* submitEmojiResponse reads and writes.  A store call is atomic: it       *)
(* either takes effect and answers, or fails and changes nothing.          *)
(* revalidatePath returns normally.                                        *)
(***************************************************************************)
\* a row of polls, with the columns createPoll writes (title, created_by)
\* and those updatePoll filters on and writes (user_id, question, options),
\* which no insert of the application sets
PollRow(id, title, createdBy) ==
    [id |-> id, title |-> title, created_by |-> createdBy, user_id |-> NULL, question |-> NULL, options |-> <<>>]

\* a row of poll_options, with the option_order column createPoll writes
OptionRow(id, pollId, text, order) ==
    [id |-> id, poll_id |-> pollId, option_text |-> text, option_order |-> order]

PollIdsOf(pollRows) == {r.id : r \in pollRows}

OptionIdsOf(optionRows) == {r.id : r \in optionRows}

VoteRow(pollId, userId, optionId, content, type) ==
    [poll_id |-> pollId, user_id |-> userId, option_id |-> optionId, content |-> content, type |-> type]

\* from('votes').select('id').eq('poll_id', ..).eq('user_id', ..).eq('content', ..)
SelectVotes(table, pollId, userId, content) ==
    [r \in {x \in DOMAIN table : x.poll_id = pollId /\ x.user_id = userId /\ x.content = <<content>>} |-> table[r]]

\* .single(): the row when exactly one row matches, else error PGRST116
Single(matches) ==
    IF BagCardinality(matches) = 1
    THEN [found |-> TRUE, error |-> NoError]
    ELSE [found |-> FALSE, error |-> Err("PGRST116", MsgNoRows)]

\* the votes table without its INSERT policy
AnyoneVotes(uid, row) == TRUE

\* policy "Users can vote": FOR INSERT WITH CHECK (auth.uid() = user_id);
\* a comparison with NULL is not true
RlsAllowsInsert(uid, row) == uid # NULL /\ row.user_id # NULL /\ uid = row.user_id

\* the votes table without its UNIQUE constraint
NoUniqueConstraint(table, row) == FALSE

\* UNIQUE(poll_id, user_id); NULLs are distinct from each other
ViolatesUnique(table, row) ==
    /\ row.user_id # NULL
    /\ \E x \in DOMAIN table : x.poll_id = row.poll_id /\ x.user_id = row.user_id

\* poll_id REFERENCES polls(id), option_id REFERENCES poll_options(id)
ViolatesForeignKey(pollRows, optionRows, row) ==
    \/ row.poll_id \notin PollIdsOf(pollRows)
    \/ row.option_id # NULL /\ row.option_id \notin OptionIdsOf(optionRows)

\* the row of a reaction written without its discriminator
ResponseRowUntyped(pollId, userId, emoji) == VoteRow(pollId, userId, NULL, <<emoji>>, NULL)

\* {poll_id: pollId, user_id: user.id, content: emoji, type: 'emoji'}
ResponseRow(pollId, userId, emoji) == VoteRow(pollId, userId, NULL, <<emoji>>, "emoji")

\* the table after from('votes').insert(row) was accepted
InsertRow(table, row) == table (+) SetToBag({row})

\* error of from('votes').insert(row) run for the session uid, NoError when
\* the row is accepted
InsertError(pollRows, optionRows, table, uid, row) ==
    IF ~RlsAllowsInsert(uid, row) THEN Err("42501", MsgRls)
    ELSE IF ViolatesUnique(table, row) THEN Err("23505", MsgUnique)
    ELSE IF ViolatesForeignKey(pollRows, optionRows, row) THEN Err("23503", MsgForeignKey)
    ELSE NoError

\* a store call either runs against the tables or fails without touching them
Faults == {Err("FAULT", m) : m \in FaultMessages}

FaultChoices == {NoError} \cup Faults

\* the outcomes used where calls run concurrently
FewFaultChoices == {NoError, Err("FAULT", "fetch failed")}

(***************************************************************************)
(* submitEmojiResponse, one record per call.                               *)
(***************************************************************************)
\* SelectThrows without the exception made for PGRST116
SelectThrowsAnyError(error) == error # NoError

\* if (selectError && selectError.code !== 'PGRST116') throw selectError
SelectThrows(error) == error # NoError /\ error.code # "PGRST116"

\* the duplicate check with its test of the answer left out
ExistingIgnored(resp) == FALSE

\* if (existingResponse)
ExistingResponse(resp) == resp.found

\* the insert with its error ignored
InsertNeverThrows(error) == FALSE

\* if (insertError) throw insertError
InsertThrows(error) == error # NoError

(***************************************************************************)
(* Poll lifecycle: createPoll, deletePoll, updatePoll.                     *)
(***************************************************************************)
MsgPollInput == "Please provide a question and at least two options."
MsgCreateLogin == "You must be logged in to create a poll."
MsgUpdateLogin == "You must be logged in to update a poll."
MsgPollFailed == "Failed to create poll: "
MsgOptionsFailed == "Failed to create poll options: "
MsgAuthMissing == "Auth session missing!"

\* answers of supabase.auth.getUser(): a user, or no user with or without
\* an error
AuthAnswers ==
    {[user |-> u, error |-> NoError] : u \in Sessions}
    \cup {[user |-> NULL, error |-> Err("AUTH", MsgAuthMissing)]}

\* formData.getAll("options").filter(Boolean): the non-empty strings, in order
NonEmpty(text) == text # ""

FilterBoolean(options) == SelectSeq(options, NonEmpty)

\* PollInputInvalid requiring one option only
PollInputInvalidUnderOne(question, options) == question = "" \/ Len(FilterBoolean(options)) < 1

\* if (!question || options.length < 2)
PollInputInvalid(question, options) == question = "" \/ Len(FilterBoolean(options)) < 2

\* what createPoll and updatePoll return before their first store call, NULL
\* when they go on to it
LifecycleGate(question, options, auth, loginMessage) ==
    IF PollInputInvalid(question, options) THEN MsgPollInput
    ELSE IF auth.error # NoError THEN auth.error.message
    ELSE IF auth.user = NULL THEN loginMessage
    ELSE NULL

\* policy "Users can create polls": WITH CHECK (auth.uid() = created_by)
RlsAllowsPollInsert(uid, row) == uid # NULL /\ uid = row.created_by

\* policy "Poll creators can insert options":
\* WITH CHECK (auth.uid() = (SELECT created_by FROM polls WHERE id = poll_id))
RlsAllowsOptionInsert(pollRows, uid, row) ==
    uid # NULL /\ \E p \in pollRows : p.id = row.poll_id /\ p.created_by = uid

\* the DELETE policy left out
AnyoneDeletes(uid, row) == TRUE

\* policy "Users can delete own polls": USING (auth.uid() = created_by)
RlsAllowsDelete(uid, row) == uid # NULL /\ uid = row.created_by

\* policy "Users can update own polls": USING (auth.uid() = created_by)
RlsAllowsUpdate(uid, row) == uid # NULL /\ uid = row.created_by

\* optionsToInsert with every ordinal 0
OptionsAllFirst(n, pollId, options) ==
    {OptionRow(FreshOptionId(n, i), pollId, options[i], 0) : i \in 1..Len(options)}

\* options.map((option, index) => ({poll_id, option_text, option_order: index}))
OptionsToInsert(n, pollId, options) ==
    {OptionRow(FreshOptionId(n, i), pollId, options[i], i - 1) : i \in 1..Len(options)}

\* error of from('poll_options').insert(rows)
OptionsInsertError(pollRows, uid, rows) ==
    IF \E r \in rows : ~RlsAllowsOptionInsert(pollRows, uid, r) THEN Err("42501", MsgRls)
    ELSE IF \E r \in rows : r.poll_id \notin PollIdsOf(pollRows) THEN Err("23503", MsgForeignKey)
    ELSE NoError

\* a delete of polls that leaves the dependent rows in place
NoCascadeOptions(optionRows, pollIds) == optionRows

\* poll_options.poll_id REFERENCES polls(id) ON DELETE CASCADE
CascadeOptions(optionRows, pollIds) == {o \in optionRows : o.poll_id \notin pollIds}

\* votes.poll_id REFERENCES polls(id) ON DELETE CASCADE,
\* votes.option_id REFERENCES poll_options(id) ON DELETE CASCADE
CascadeVotes(table, pollIds, optionIds) ==
    [r \in {x \in DOMAIN table : x.poll_id \notin pollIds /\ x.option_id \notin optionIds} |-> table[r]]

\* UpdateTargets without the tests of ownership
UpdateTargetsById(pollRows, pollId, uid) == {r \in pollRows : r.id = pollId}

\* the rows reached by update(..).eq("id", pollId).eq("user_id", user.id)
\* under the UPDATE policy
UpdateTargets(pollRows, pollId, uid) ==
    {r \in pollRows : r.id = pollId /\ r.user_id = uid /\ RlsAllowsUpdate(uid, r)}

\* Fields of the createPoll call: pc is its position, question, options and
\* user its inputs, pollId the identifier the store returned, error what it
\* returned, revalidated whether it invalidated /polls.  History: created
\* counts the polls created so far, pollsAdded and optionsAdded the rows this
\* call added, pollBefore and pollAfter whether its poll row was stored
\* before and after the insert of the options.
IdleCreation ==
    [pc |-> "idle", question |-> "", options |-> <<>>, user |-> NULL, pollId |-> <<>>,
     error |-> NULL, revalidated |-> FALSE, created |-> 0,
     pollsAdded |-> 0, optionsAdded |-> 0, pollBefore |-> FALSE, pollAfter |-> FALSE]

\* The last deletePoll, updatePoll or submitVote that returned: its name, the
\* session user, the poll and what it returned.  History: owner is the
\* created_by of that poll when the call ran (NULL without such a poll),
\* changed whether the call changed a table, cascaded the number of option
\* and vote rows a delete removed with the poll, input the question and
\* options an updatePoll was given.
Op(name, user, pollId, error, owner, changed, cascaded) ==
    [name |-> name, user |-> user, pollId |-> pollId, error |-> error,
     owner |-> owner, changed |-> changed, cascaded |-> cascaded, input |-> <<>>]

NoOp == Op("none", NULL, <<>>, NULL, NULL, FALSE, 0)

OwnerOf(pollRows, pollId) ==
    IF \E r \in pollRows : r.id = pollId
    THEN (CHOOSE r \in pollRows : r.id = pollId).created_by
    ELSE NULL

\* Fields of a call: pc is its position, pollId, emoji and user its inputs,
\* result what it returned, selectCode and insertCode the codes of the errors
\* the two store calls answered with, revalidated the poll pages it
\* invalidated.  The other fields record its history: finds and inserts count
\* the store calls it issued, added the rows it added, afterSuccess whether a
\* call with the same poll, user and emoji had returned success when it
\* started, emptyAtFind/emptyAtInsert whether the votes table was empty at
\* that step, otherAtFind whether the user then had a reaction with another
\* emoji on the poll.
IdleCall ==
    [pc |-> "idle", pollId |-> <<>>, emoji |-> <<>>, user |-> NULL, result |-> Pending,
     finds |-> 0, inserts |-> 0, added |-> 0, revalidated |-> <<>>,
     selectCode |-> NULL, insertCode |-> NULL,
     afterSuccess |-> FALSE, emptyAtFind |-> FALSE, otherAtFind |-> FALSE, emptyAtInsert |-> FALSE]

(***************************************************************************)
(* Sign-in: the login server action and the login page.                    *)
(***************************************************************************)
MaxPages == 2

PageIds == 1..MaxPages

\* the accounts of the provider: email and password
Accounts == {[email |-> "ann@x", password |-> "pw"]}

EmailInputs == {"ann@x", "bob@x"}

PasswordInputs == {"pw", "bad"}

MsgInvalidLogin == "Invalid email or password."
MsgBadCredentials == "Invalid login credentials"
MsgNotConfirmed == "Email not confirmed"
MsgRateLimit == "Request rate limit reached"

\* what can go wrong at the provider besides the credentials
ProviderFaults ==
    {Err("email_not_confirmed", MsgNotConfirmed), Err("over_request_rate_limit", MsgRateLimit)}

\* error of supabase.auth.signInWithPassword({email, password})
SignInError(email, password, fault) ==
    IF fault # NoError THEN fault
    ELSE IF [email |-> email, password |-> password] \notin Accounts
         THEN Err("invalid_credentials", MsgBadCredentials)
         ELSE NoError

\* login handing the provider's message to the page
LoginRaw(error) ==
    IF error # NoError THEN [error |-> error.message] ELSE [error |-> NULL]

\* what the page receives from login(formData): {error} on failure, nothing
\* when the action redirected
Login(error) ==
    IF error # NoError THEN [error |-> MsgInvalidLogin] ELSE [error |-> NULL]

\* Fields of a login page: pc is the position of handleSubmit, email and
\* password the submitted credentials, error and loading the page's state,
\* result what login returned.  History: cause is the code of the provider's
\* error, NULL when it accepted.
IdleLogin ==
    [pc |-> "idle", email |-> "", password |-> "", cause |-> NULL,
     result |-> [error |-> NULL], error |-> NULL, loading |-> FALSE]

(***************************************************************************)
(* Sign-up: the registration page, which calls the provider itself.        *)
(***************************************************************************)
MsgMismatch == "Passwords do not match"
MsgRegistered == "Registration successful! Please check your email to confirm your account."
MsgCheckEmail == "Please check your email for the confirmation link."
MsgAlreadyRegistered == "User already registered"
MsgWeakPassword == "Password should be at least 6 characters."

\* {data, error} of supabase.auth.signUp for an email without an account
NewAnswers ==
    {[user |-> TRUE, error |-> NoError],
     [user |-> FALSE, error |-> Err("weak_password", MsgWeakPassword)]}

\* {data, error} of supabase.auth.signUp for an email that has an account:
\* the provider refuses, answers without a user, or answers with a user
\* object that hides the account, depending on its settings
ExistingAnswers ==
    {[user |-> FALSE, error |-> Err("user_already_exists", MsgAlreadyRegistered)],
     [user |-> FALSE, error |-> NoError],
     [user |-> TRUE, error |-> NoError],
     [user |-> FALSE, error |-> Err("weak_password", MsgWeakPassword)]}

SignUpAnswers(emails, email) == IF email \in emails THEN ExistingAnswers ELSE NewAnswers

\* lines 86-96: the error and success states after the provider answered
ShownAfterSignUp(answer) ==
    IF answer.error # NoError THEN [error |-> answer.error.message, success |-> NULL]
    ELSE IF answer.user THEN [error |-> NULL, success |-> MsgRegistered]
    ELSE [error |-> NULL, success |-> MsgCheckEmail]

\* Fields of a registration page: pc is the position of handleSubmit, email,
\* password and confirmPassword the submitted fields, error, success and
\* loading the page's state.  History: existed is whether the email had an
\* account when the provider was asked, code the code of the provider's error.
IdleSignup ==
    [pc |-> "idle", email |-> "", password |-> "", confirmPassword |-> "",
     existed |-> FALSE, code |-> NULL, error |-> NULL, success |-> NULL, loading |-> FALSE]

(***************************************************************************)
(* PollCreateForm: the options list, the error and success states and the  *)
(* submissions in flight.                                                  *)
(***************************************************************************)
MaxOptions == 3
MaxSubmits == 2

\* opts.map((opt, i) => (i === idx ? value : opt)), idx counted from 1
MapOption(opts, idx, value) == [i \in 1..Len(opts) |-> IF i = idx THEN value ELSE opts[i]]

\* opts.filter((_, i) => i !== idx), idx counted from 1
FilterOption(opts, idx) ==
    [i \in 1..(IF idx \in 1..Len(opts) THEN Len(opts) - 1 ELSE Len(opts)) |->
        IF i < idx THEN opts[i] ELSE opts[i + 1]]

\* what createPoll returns for a form and a session, with whether it left a
\* poll row in the store: the returns of lines 62-78, 90-92, 107-111 and 115
CreatePollOutcomes(gate) ==
    IF gate # NULL THEN {[error |-> gate, created |-> FALSE]}
    ELSE {[error |-> MsgPollFailed \o "fetch failed", created |-> FALSE],
          [error |-> MsgOptionsFailed \o "fetch failed", created |-> TRUE],
          [error |-> NULL, created |-> TRUE]}

\* Fields of the form: options, error and success are its React state, shown
\* the options of the last render (what the handlers of that render and the
\* inputs hold), pending the createPoll calls that have not returned, each
\* with what it answers before its first store call, timer whether the
\* redirect is scheduled, open whether the page is still displayed.
\* History: started counts the createPoll calls, created those that left a
\* poll row, overlapped whether a call was started while another was pending.
InitialForm ==
    [options |-> <<"", "">>, shown |-> <<"", "">>, error |-> NULL, success |-> FALSE,
     pending |-> <<>>, timer |-> FALSE, open |-> TRUE,
     started |-> 0, created |-> 0, overlapped |-> FALSE]

(***************************************************************************)
(* The middleware: updateSession.  A path is a sequence of characters.     *)
(***************************************************************************)
\* "/"
PathRoot == <<"/">>
\* "/polls"
PathPolls == <<"/", "p", "o", "l", "l", "s">>
\* "/create"
PathCreate == <<"/", "c", "r", "e", "a", "t", "e">>
\* "/register"
PathRegister == <<"/", "r", "e", "g", "i", "s", "t", "e", "r">>
\* "/log"
PathLog == <<"/", "l", "o", "g">>
\* "/login"
PathLogin == <<"/", "l", "o", "g", "i", "n">>
\* "/login/reset"
PathLoginReset == <<"/", "l", "o", "g", "i", "n", "/", "r", "e", "s", "e", "t">>
\* "/loginx"
PathLoginx == <<"/", "l", "o", "g", "i", "n", "x">>
\* "/auth"
PathAuth == <<"/", "a", "u", "t", "h">>
\* "/auth/callback"
PathAuthCallback == <<"/", "a", "u", "t", "h", "/", "c", "a", "l", "l", "b", "a", "c", "k">>
\* "/authors"
PathAuthors == <<"/", "a", "u", "t", "h", "o", "r", "s">>

PathInputs == {PathRoot, PathPolls, PathCreate, PathRegister, PathLog, PathLogin, PathLoginReset, PathLoginx, PathAuth, PathAuthCallback, PathAuthors}

\* pathname.startsWith(prefix)
StartsWith(path, prefix) ==
    /\ Len(path) >= Len(prefix)
    /\ SubSeq(path, 1, Len(prefix)) = prefix

\* outcomes of supabase.auth.getUser() in the middleware
LookupOutcomes == {"user", "nouser", "error", "throws"}

\* the test of the path done by comparing whole paths
UpdateSessionExactPaths(env, lookup, path) ==
    IF ~env THEN "next"
    ELSE IF lookup \in {"error", "throws"} THEN "next"
    ELSE IF lookup = "nouser" /\ path # PathLogin /\ path # PathAuth THEN "redirect /login"
    ELSE "next"

\* the response of updateSession: env is whether both environment
\* variables are set, lookup the outcome of getUser (not asked without env)
UpdateSession(env, lookup, path) ==
    IF ~env THEN "next"
    ELSE IF lookup \in {"error", "throws"} THEN "next"
    ELSE IF lookup = "nouser" /\ ~StartsWith(path, PathLogin) /\ ~StartsWith(path, PathAuth)
         THEN "redirect /login"
    ELSE "next"

\* Fields of the request in the middleware: pc is the position of
\* updateSession, path the requested path, env whether the environment is
\* configured, lookup the outcome of the session lookup, response what
\* updateSession returned.
NoRequest == [pc |-> "idle", path |-> <<>>, env |-> FALSE, lookup |-> NULL, response |-> NULL]

Init ==
    /\ polls = {PollRow(Poll1, "Q0", Creator1)}
    /\ poll_options = {OptionRow(Option1, Poll1, "A", 0), OptionRow(Option2, Poll1, "B", 1)}
    /\ votes = EmptyBag
    /\ calls = [c \in CallIds |-> IdleCall]
    /\ creation = IdleCreation
    /\ op = NoOp
    /\ logins = [i \in PageIds |-> IdleLogin]
    /\ registered = {a.email : a \in Accounts}
    /\ signups = [i \in PageIds |-> IdleSignup]
    /\ form = InitialForm
    /\ request = NoRequest

\* lines 18-31: session lookup and validation, up to the first store call
Start(c, pollId, emoji, user) ==
    /\ calls[c].pc = "idle"
    /\ \A b \in CallIds : b < c => calls[b].pc # "idle"
    /\ LET gate == GateResult(user, pollId, emoji)
           begun == [calls[c] EXCEPT !.pollId = pollId, !.emoji = emoji, !.user = user,
                        !.afterSuccess = \E b \in CallIds :
                             /\ calls[b].pc = "done" /\ calls[b].result = Success
                             /\ calls[b].pollId = pollId /\ calls[b].emoji = emoji
                             /\ calls[b].user = user]
       IN calls' = [calls EXCEPT ![c] =
              IF gate # Pending
              THEN [begun EXCEPT !.pc = "done", !.result = gate]
              ELSE [begun EXCEPT !.pc = "find"]]
    /\ UNCHANGED <<polls, poll_options, votes, creation, op, uiVars>>

\* lines 18-21 lie outside the try block: createClient or getUser throwing
\* ends the call with that exception
StartThrows(c, pollId, emoji) ==
    /\ calls[c].pc = "idle"
    /\ \A b \in CallIds : b < c => calls[b].pc # "idle"
    /\ calls' = [calls EXCEPT ![c] =
           [@ EXCEPT !.pc = "thrown", !.pollId = pollId, !.emoji = emoji]]
    /\ UNCHANGED <<polls, poll_options, votes, creation, op, uiVars>>

\* lines 35-49: the duplicate check
Find(c, fault) ==
    /\ calls[c].pc = "find"
    /\ LET me == calls[c]
             resp == IF fault = NoError
                     THEN Single(SelectVotes(votes, me.pollId, me.user, me.emoji))
                     ELSE [found |-> FALSE, error |-> fault]
             asked == [me EXCEPT !.finds = @ + 1, !.selectCode = resp.error.code,
                                 !.emptyAtFind = (votes = EmptyBag),
                                 !.otherAtFind = \E x \in DOMAIN votes :
                                      /\ x.poll_id = me.pollId /\ x.user_id = me.user
                                      /\ x.type = "emoji" /\ x.content # <<me.emoji>>]
         IN calls' = [calls EXCEPT ![c] =
                IF SelectThrows(resp.error)
                THEN [asked EXCEPT !.pc = "done", !.result = CatchResult(resp.error)]
                ELSE IF ExistingResponse(resp)
                THEN [asked EXCEPT !.pc = "done", !.result = Failure(MsgDuplicate)]
                ELSE [asked EXCEPT !.pc = "insert"]]
    /\ UNCHANGED <<polls, poll_options, votes, creation, op, uiVars>>

\* lines 52-64: the insert, the cache invalidation and the success result
Insert(c, fault) ==
    /\ calls[c].pc = "insert"
    /\ BagCardinality(votes) < MaxRows
    /\ LET me == calls[c]
             row == ResponseRow(me.pollId, me.user, me.emoji)
             error == IF fault = NoError
                      THEN InsertError(polls, poll_options, votes, me.user, row)
                      ELSE fault
             asked == [me EXCEPT !.inserts = @ + 1, !.insertCode = error.code,
                                 !.emptyAtInsert = (votes = EmptyBag),
                                 !.added = IF error = NoError THEN 1 ELSE 0]
         IN /\ votes' = IF error = NoError THEN InsertRow(votes, row) ELSE votes
            /\ calls' = [calls EXCEPT ![c] =
                   IF InsertThrows(error)
                   THEN [asked EXCEPT !.pc = "done", !.result = CatchResult(error)]
                   ELSE [asked EXCEPT !.pc = "done", !.result = Success,
                                      !.revalidated = <<PollPath(me.pollId)>>]]
    /\ UNCHANGED <<polls, poll_options, creation, op, uiVars>>

(***************************************************************************)
(* submitVote: one insert, no session required by the action.              *)
(***************************************************************************)
SubmitVote(pollId, optionId, user, fault) ==
    /\ BagCardinality(votes) < MaxRows
    /\ LET row == VoteRow(pollId, user, optionId, <<>>, NULL)
             error == IF fault = NoError
                      THEN InsertError(polls, poll_options, votes, user, row)
                      ELSE fault
         IN votes' = IF error = NoError THEN InsertRow(votes, row) ELSE votes
    /\ UNCHANGED <<polls, poll_options, calls, creation, op, uiVars>>

\* submitVote with what it returns
SubmitVoteCall(pollId, optionId, user, fault) ==
    /\ BagCardinality(votes) < MaxRows
    /\ LET row == VoteRow(pollId, user, optionId, <<>>, NULL)
           error == IF fault = NoError
                    THEN InsertError(polls, poll_options, votes, user, row)
                    ELSE fault
       IN /\ votes' = IF error = NoError THEN InsertRow(votes, row) ELSE votes
          /\ op' = Op("submitVote", user, pollId, error.message,
                      OwnerOf(polls, pollId), error = NoError, 0)
    /\ UNCHANGED <<polls, poll_options, calls, creation, uiVars>>

(***************************************************************************)
(* createPoll: validation and session, the insert of the poll row, the     *)
(* insert of the option rows.                                              *)
(***************************************************************************)
\* lines 55-78
CreateStart(question, options, auth) ==
    /\ creation.pc \in {"idle", "done"}
    /\ creation.created < MaxCreated
    /\ LET gate == LifecycleGate(question, options, auth, MsgCreateLogin)
           begun == [IdleCreation EXCEPT !.question = question, !.options = options,
                                         !.user = auth.user, !.created = creation.created]
       IN creation' = IF gate # NULL
                      THEN [begun EXCEPT !.pc = "done", !.error = gate]
                      ELSE [begun EXCEPT !.pc = "poll"]
    /\ UNCHANGED <<polls, poll_options, votes, calls, op, uiVars>>

\* lines 81-94
CreatePollRow(fault) ==
    /\ creation.pc = "poll"
    /\ LET id == FreshPollId(creation.created + 1)
           row == PollRow(id, creation.question, creation.user)
           error == IF fault # NoError THEN fault
                    ELSE IF ~RlsAllowsPollInsert(creation.user, row) THEN Err("42501", MsgRls)
                    ELSE NoError
       IN IF error # NoError
          THEN /\ creation' = [creation EXCEPT !.pc = "done", !.error = MsgPollFailed \o error.message]
               /\ polls' = polls
          ELSE /\ creation' = [creation EXCEPT !.pc = "options", !.pollId = id,
                                               !.created = @ + 1, !.pollsAdded = 1]
               /\ polls' = polls \cup {row}
    /\ UNCHANGED <<poll_options, votes, calls, op, uiVars>>

\* lines 97-115
CreateOptions(fault) ==
    /\ creation.pc = "options"
    /\ LET rows == OptionsToInsert(creation.created, creation.pollId, FilterBoolean(creation.options))
           error == IF fault # NoError THEN fault
                    ELSE OptionsInsertError(polls, creation.user, rows)
           asked == [creation EXCEPT !.pc = "done",
                                     !.pollBefore = creation.pollId \in PollIdsOf(polls),
                                     !.pollAfter = creation.pollId \in PollIdsOf(polls)]
       IN IF error # NoError
          THEN /\ creation' = [asked EXCEPT !.error = MsgOptionsFailed \o error.message]
               /\ poll_options' = poll_options
          ELSE /\ creation' = [asked EXCEPT !.error = NULL, !.revalidated = TRUE,
                                            !.optionsAdded = Cardinality(rows)]
               /\ poll_options' = poll_options \cup rows
    /\ UNCHANGED <<polls, votes, calls, op, uiVars>>

(***************************************************************************)
(* deletePoll and updatePoll: one store call each.                         *)
(***************************************************************************)
\* lines 274-286; user is the user of the session the client was made for
DeletePoll(id, user, fault) ==
    LET gone == IF fault # NoError THEN {}
                ELSE {r \in polls : r.id = id /\ RlsAllowsDelete(user, r)}
        goneIds == PollIdsOf(gone)
        optionsLeft == CascadeOptions(poll_options, goneIds)
        goneOptions == OptionIdsOf(poll_options \ optionsLeft)
        votesLeft == CascadeVotes(votes, goneIds, goneOptions)
    IN /\ polls' = polls \ gone
       /\ poll_options' = optionsLeft
       /\ votes' = votesLeft
       /\ op' = Op("deletePoll", user, id, IF fault # NoError THEN fault.message ELSE NULL,
                   OwnerOf(polls, id), gone # {},
                   Cardinality(poll_options \ optionsLeft)
                       + BagCardinality(votes) - BagCardinality(votesLeft))
       /\ UNCHANGED <<calls, creation, uiVars>>

\* lines 312-353
UpdatePoll(pollId, question, options, auth, fault) ==
    LET gate == LifecycleGate(question, options, auth, MsgUpdateLogin)
        targets == IF gate # NULL \/ fault # NoError THEN {}
                   ELSE UpdateTargets(polls, pollId, auth.user)
        updated == {[r EXCEPT !.question = question, !.options = FilterBoolean(options)] : r \in targets}
    IN /\ polls' = (polls \ targets) \cup updated
       /\ op' = [Op("updatePoll", auth.user, pollId,
                      IF gate # NULL THEN gate ELSE IF fault # NoError THEN fault.message ELSE NULL,
                      OwnerOf(polls, pollId), polls' # polls, 0)
                   EXCEPT !.input = <<question, options>>]
       /\ UNCHANGED <<poll_options, votes, calls, creation, uiVars>>

(***************************************************************************)
(* The login page: handleSubmit up to the call of login, and from the      *)
(* answer of login on.                                                     *)
(***************************************************************************)
\* page.tsx lines 52-60; the button is disabled while loading
LoginSubmit(i, email, password) ==
    /\ ~logins[i].loading
    /\ UNCHANGED <<registered, signups, form, request>>
    /\ logins' = [logins EXCEPT ![i] =
           [IdleLogin EXCEPT !.pc = "pending", !.email = email, !.password = password,
                             !.loading = TRUE]]
    /\ UNCHANGED storeVars

\* login (part_004 lines 76-96) and page.tsx lines 62-70
LoginAnswer(i, fault) ==
    /\ logins[i].pc = "pending"
    /\ LET error == SignInError(logins[i].email, logins[i].password, fault)
           result == Login(error)
       IN logins' = [logins EXCEPT ![i] =
              IF result.error # NULL
              THEN [@ EXCEPT !.pc = "failed", !.cause = error.code, !.result = result,
                             !.error = result.error, !.loading = FALSE]
              ELSE [@ EXCEPT !.pc = "redirected", !.result = result]]
    /\ UNCHANGED <<storeVars, registered, signups, form, request>>

(***************************************************************************)
(* The registration page: handleSubmit up to the call of the provider, and *)
(* from its answer on.                                                     *)
(***************************************************************************)
\* part_005 lines 56-82; the form is shown while no success text is set and
\* its button is disabled while loading
RegisterSubmit(i, email, password, confirmPassword) ==
    /\ ~signups[i].loading
    /\ signups[i].success = NULL
    /\ LET sent == [IdleSignup EXCEPT !.email = email, !.password = password,
                                      !.confirmPassword = confirmPassword]
       IN signups' = [signups EXCEPT ![i] =
              IF password # confirmPassword
              THEN [sent EXCEPT !.pc = "done", !.error = MsgMismatch]
              ELSE [sent EXCEPT !.pc = "pending", !.loading = TRUE]]
    /\ UNCHANGED <<storeVars, logins, registered, form, request>>

\* part_005 lines 76-96
RegisterAnswer(i, answer) ==
    /\ signups[i].pc = "pending"
    /\ answer \in SignUpAnswers(registered, signups[i].email)
    /\ LET shown == ShownAfterSignUp(answer)
       IN signups' = [signups EXCEPT ![i] =
              [@ EXCEPT !.pc = "done", !.loading = FALSE,
                        !.existed = signups[i].email \in registered,
                        !.code = answer.error.code,
                        !.error = shown.error, !.success = shown.success]]
    /\ registered' = IF answer.error = NoError THEN registered \cup {signups[i].email}
                     ELSE registered
    /\ UNCHANGED <<storeVars, logins, form, request>>

(***************************************************************************)
(* PollCreateForm: its event handlers, a render, the form action up to the *)
(* call of createPoll and from its answer on, the scheduled redirect.      *)
(***************************************************************************)
\* lines 78-80; the inputs are those of the last render
HandleOptionChange(idx, value) ==
    /\ form.open
    /\ idx \in 1..Len(form.shown)
    /\ form' = [form EXCEPT !.options = MapOption(@, idx, value)]
    /\ UNCHANGED <<storeVars, logins, registered, signups, request>>

\* line 88
AddOption ==
    /\ form.open
    /\ Len(form.options) < MaxOptions
    /\ form' = [form EXCEPT !.options = Append(@, "")]
    /\ UNCHANGED <<storeVars, logins, registered, signups, request>>

\* lines 99-104: the test reads the options of the render the handler
\* belongs to, the update works on the current state; the button exists
\* under the same test (line 169)
RemoveOption(idx) ==
    /\ form.open
    /\ Len(form.shown) > 2
    /\ idx \in 1..Len(form.shown)
    /\ form' = [form EXCEPT !.options = FilterOption(@, idx)]
    /\ UNCHANGED <<storeVars, logins, registered, signups, request>>

\* the component renders with the current state
Render ==
    /\ form.open
    /\ form.shown # form.options
    /\ form' = [form EXCEPT !.shown = form.options]
    /\ UNCHANGED <<storeVars, logins, registered, signups, request>>

\* lines 121-127: the button is enabled unless success is set (line 212) and
\* the browser submits only when every required input is filled
FormSubmit(auth) ==
    /\ form.open
    /\ ~form.success
    /\ form.started < MaxSubmits
    /\ \A i \in 1..Len(form.shown) : form.shown[i] # ""
    /\ form' = [form EXCEPT !.error = NULL, !.success = FALSE,
                            !.pending = Append(@, LifecycleGate("Q", form.shown, auth, MsgCreateLogin)),
                            !.started = @ + 1,
                            !.overlapped = @ \/ form.pending # <<>>]
    /\ UNCHANGED <<storeVars, logins, registered, signups, request>>

\* lines 127-141: the k-th pending call returns
FormAnswer(k, outcome) ==
    /\ form.open
    /\ k \in 1..Len(form.pending)
    /\ outcome \in CreatePollOutcomes(form.pending[k])
    /\ LET rest == [i \in 1..(Len(form.pending) - 1) |->
                       IF i < k THEN form.pending[i] ELSE form.pending[i + 1]]
           counted == [form EXCEPT !.pending = rest,
                                   !.created = @ + (IF outcome.created THEN 1 ELSE 0)]
       IN form' = IF outcome.error # NULL /\ outcome.error # ""
                  THEN [counted EXCEPT !.error = outcome.error]
                  ELSE [counted EXCEPT !.success = TRUE, !.timer = TRUE]
    /\ UNCHANGED <<storeVars, logins, registered, signups, request>>

\* lines 138-140: the timer fires and the browser leaves the page
FormLeave ==
    /\ form.open
    /\ form.timer
    /\ form' = [form EXCEPT !.open = FALSE]
    /\ UNCHANGED <<storeVars, logins, registered, signups, request>>

(***************************************************************************)
(* updateSession: the request arrives, the session is looked up, the       *)
(* response is returned.                                                   *)
(***************************************************************************)
\* part_001 lines 465-476
Receive(path, env) ==
    /\ request.pc \in {"idle", "responded"}
    /\ request' = IF env
                  THEN [NoRequest EXCEPT !.pc = "lookup", !.path = path, !.env = TRUE]
                  ELSE [NoRequest EXCEPT !.pc = "responded", !.path = path,
                                         !.response = UpdateSession(FALSE, NULL, path)]
    /\ UNCHANGED <<storeVars, logins, registered, signups, form>>

\* part_001 lines 478-510: getUser answers or throws
Lookup(outcome) ==
    /\ request.pc = "lookup"
    /\ request' = [request EXCEPT !.pc = "answered", !.lookup = outcome]
    /\ UNCHANGED <<storeVars, logins, registered, signups, form>>

\* part_001 lines 502-523
Respond ==
    /\ request.pc = "answered"
    /\ request' = [request EXCEPT !.pc = "responded",
                                  !.response = UpdateSession(TRUE, request.lookup, request.path)]
    /\ UNCHANGED <<storeVars, logins, registered, signups, form>>

Next ==
    \/ \E c \in CallIds, pollId \in FewPollIds, emoji \in FewEmojis, user \in Sessions :
         Start(c, pollId, emoji, user)
    \/ \E c \in CallIds, fault \in FewFaultChoices : Find(c, fault)
    \/ \E c \in CallIds, fault \in FewFaultChoices : Insert(c, fault)
    \/ \E optionId \in OptionInputs, user \in Sessions, fault \in FewFaultChoices :
         SubmitVote(Poll1, optionId, user, fault)

Spec == Init /\ [][Next]_vars

\* one call at a time over the whole input alphabet
NextOne ==
    \/ \E pollId \in PollIdInputs, emoji \in EmojiInputs, user \in Sessions :
         Start(1, pollId, emoji, user)
    \/ \E fault \in FaultChoices : Find(1, fault)
    \/ \E fault \in FaultChoices : Insert(1, fault)
    \/ \E pollId \in {Poll1, Poll2}, optionId \in OptionInputs, user \in Sessions, fault \in FaultChoices :
         SubmitVote(pollId, optionId, user, fault)

SpecOne == Init /\ [][NextOne]_vars

\* one call whose session lookup may also throw
NextLookup ==
    \/ \E pollId \in PollIdInputs, emoji \in EmojiInputs, user \in Sessions :
         Start(1, pollId, emoji, user)
    \/ \E pollId \in PollIdInputs, emoji \in EmojiInputs : StartThrows(1, pollId, emoji)
    \/ \E fault \in FaultChoices : Find(1, fault)
    \/ \E fault \in FaultChoices : Insert(1, fault)

SpecLookup == Init /\ [][NextLookup]_vars

\* inputs of the poll lifecycle
QuestionInputs == {"", "Q"}

OptionListInputs == {<<"A", "B">>, <<"A", "">>, <<"B", "", "A">>}

\* the forms submitted where creation runs beside deletes, votes and reactions
FewForms ==
    {[question |-> "Q", options |-> <<"B", "", "A">>],
     [question |-> "", options |-> <<"A", "B">>],
     [question |-> "Q", options |-> <<"A", "">>]}

LifecyclePollIds == {Poll1, FreshPollId(1)}

\* the poll lifecycle with votes and one emoji reaction
NextPolls ==
    \/ \E sent \in FewForms, user \in Sessions :
         CreateStart(sent.question, sent.options, [user |-> user, error |-> NoError])
    \/ \E fault \in FewFaultChoices : CreatePollRow(fault)
    \/ \E fault \in FewFaultChoices : CreateOptions(fault)
    \/ \E id \in LifecyclePollIds, user \in Sessions :
         DeletePoll(id, user, NoError)
    \/ \E id \in LifecyclePollIds, optionId \in OptionInputs, user \in Sessions :
         SubmitVoteCall(id, optionId, user, NoError)
    \/ \E user \in Users :
         UpdatePoll(Poll1, "Q", <<"A", "B">>, [user |-> user, error |-> NoError], NoError)
    \/ Start(1, Poll1, ThumbsUp, "u2")
    \/ Find(1, NoError)
    \/ Insert(1, NoError)

SpecPolls == Init /\ [][NextPolls]_vars

\* creation and update of polls over the whole input alphabet
NextUpdate ==
    \/ \E question \in QuestionInputs, options \in OptionListInputs, auth \in AuthAnswers :
         CreateStart(question, options, auth)
    \/ \E fault \in FaultChoices : CreatePollRow(fault)
    \/ \E fault \in FaultChoices : CreateOptions(fault)
    \/ \E id \in LifecyclePollIds, question \in QuestionInputs, options \in OptionListInputs,
          auth \in AuthAnswers, fault \in FewFaultChoices :
         UpdatePoll(id, question, options, auth, fault)

SpecUpdate == Init /\ [][NextUpdate]_vars

\* sign-in on the login pages
NextAuth ==
    \/ \E i \in PageIds, email \in EmailInputs, password \in PasswordInputs :
         LoginSubmit(i, email, password)
    \/ \E i \in PageIds, fault \in {NoError} \cup ProviderFaults : LoginAnswer(i, fault)

SpecAuth == Init /\ [][NextAuth]_vars

\* sign-up on the registration pages
NextRegister ==
    \/ \E i \in PageIds, email \in EmailInputs, password, confirmPassword \in PasswordInputs :
         RegisterSubmit(i, email, password, confirmPassword)
    \/ \E i \in PageIds, answer \in NewAnswers \cup ExistingAnswers : RegisterAnswer(i, answer)

SpecRegister == Init /\ [][NextRegister]_vars

\* the poll creation form
NextForm ==
    \/ \E idx \in 1..MaxOptions, value \in {"", "A"} : HandleOptionChange(idx, value)
    \/ AddOption
    \/ \E idx \in 1..MaxOptions : RemoveOption(idx)
    \/ Render
    \/ \E user \in {"u1", NULL} : FormSubmit([user |-> user, error |-> NoError])
    \/ \E k \in 1..MaxSubmits, outcome \in CreatePollOutcomes(NULL) \cup CreatePollOutcomes(MsgCreateLogin) :
         FormAnswer(k, outcome)
    \/ FormLeave

SpecForm == Init /\ [][NextForm]_vars

\* requests through the middleware
NextMiddleware ==
    \/ \E path \in PathInputs, env \in BOOLEAN : Receive(path, env)
    \/ \E outcome \in LookupOutcomes : Lookup(outcome)
    \/ Respond

SpecMiddleware == Init /\ [][NextMiddleware]_vars

(***************************************************************************)
(* Vocabulary of the properties.                                           *)
(***************************************************************************)
Done(c) == calls[c].pc = "done"

\* the call passed both gates and neither of its store calls failed for a
\* reason that is not about the data
RanWithoutFault(c) ==
    /\ calls[c].finds = 1
    /\ calls[c].selectCode # "FAULT"
    /\ calls[c].insertCode # "FAULT"

EmojiRow(c) == VoteRow(calls[c].pollId, calls[c].user, NULL, <<calls[c].emoji>>, "emoji")

\* number of stored rows for the (poll, user, emoji) triple of call c
TripleCount(c) ==
    BagCardinality([r \in {x \in DOMAIN votes :
                               /\ x.poll_id = calls[c].pollId
                               /\ x.user_id = calls[c].user
                               /\ x.content = <<calls[c].emoji>>} |-> votes[r]])

SameTriple(c, d) ==
    /\ calls[c].pollId = calls[d].pollId
    /\ calls[c].user = calls[d].user
    /\ calls[c].emoji = calls[d].emoji

EmojiRowCount == BagCardinality([r \in {x \in DOMAIN votes : x.type = "emoji"} |-> votes[r]])

MalformedPollIds == {NotAUuid, BadHex, NoDashes}

InvalidEmojis == {TwoLetters, EmptyStr, HeartVs16}

ValidationMessages == {MsgUuid, MsgEmoji}

(***************************************************************************)
(* C1: a call for an existing poll by an authenticated user that finds and *)
(* inserts into an empty votes table returns {success: true}; a call with  *)
(* the identical triple started after that success returns the 'already    *)
(* responded' failure, and exactly one row is stored for the triple.       *)
(***************************************************************************)
C1_OnceThenDuplicate ==
    \A c \in CallIds :
        (Done(c) /\ RanWithoutFault(c) /\ calls[c].pollId \in PollIdsOf(polls)) =>
            /\ (calls[c].emptyAtFind /\ calls[c].emptyAtInsert) => calls[c].result = Success
            /\ calls[c].afterSuccess =>
                  /\ calls[c].result = Failure(MsgDuplicate)
                  /\ TripleCount(c) = 1

C1_Witness ==
    \E c, d \in CallIds :
        /\ c # d /\ Done(c) /\ Done(d) /\ SameTriple(c, d)
        /\ calls[c].emptyAtFind /\ calls[c].emptyAtInsert /\ calls[c].result = Success
        /\ calls[d].afterSuccess /\ calls[d].result = Failure(MsgDuplicate)
        /\ TripleCount(c) = 1

(***************************************************************************)
(* C2: when two calls for the identical triple both run their duplicate    *)
(* check on the empty table before either inserts, one returns success,    *)
(* the other returns the 'already responded' failure, and one row is       *)
(* stored.                                                                 *)
(***************************************************************************)
C2_ConcurrentOneSuccessOneDuplicate ==
    \A c, d \in CallIds :
        (/\ c # d /\ Done(c) /\ Done(d) /\ SameTriple(c, d)
         /\ RanWithoutFault(c) /\ RanWithoutFault(d)
         /\ calls[c].emptyAtFind /\ calls[d].emptyAtFind
         /\ calls[c].emptyAtInsert)
        => /\ calls[c].result = Success
           /\ calls[d].result = Failure(MsgDuplicate)
           /\ TripleCount(c) = 1

(***************************************************************************)
(* C3: the votes table never holds two emoji rows with the same poll, user *)
(* and emoji.                                                              *)
(***************************************************************************)
C3_OneRowPerTriple ==
    \A r \in DOMAIN votes : r.type = "emoji" => CopiesIn(r, votes) = 1

C3_Witness ==
    \E c, d \in CallIds :
        /\ c # d /\ Done(c) /\ Done(d) /\ SameTriple(c, d)
        /\ calls[c].inserts = 1 /\ calls[d].inserts = 1
        /\ calls[c].insertCode = NULL /\ calls[d].insertCode = "23505"
        /\ CopiesIn(EmojiRow(c), votes) = 1

(***************************************************************************)
(* C4: a call whose insert is rejected by the uniqueness constraint while  *)
(* a row for its triple is stored returns the 'already responded' failure. *)
(***************************************************************************)
C4_UniqueViolationIsDuplicate ==
    \A c \in CallIds :
        (Done(c) /\ calls[c].insertCode = "23505" /\ TripleCount(c) >= 1)
        => calls[c].result = Failure(MsgDuplicate)

(***************************************************************************)
(* C5: a call without a session returns the 'must be logged in' failure    *)
(* whatever its pollId and emoji, and issues no find, no insert and no     *)
(* cache invalidation.                                                     *)
(***************************************************************************)
C5_NoSessionNoStoreAccess ==
    \A c \in CallIds :
        (calls[c].pc # "idle" /\ calls[c].user = NULL) =>
            /\ Done(c)
            /\ calls[c].result = Failure(MsgLogin)
            /\ calls[c].finds = 0 /\ calls[c].inserts = 0 /\ calls[c].added = 0
            /\ calls[c].revalidated = <<>>

C5_Witness ==
    \E c \in CallIds :
        /\ Done(c) /\ calls[c].user = NULL
        /\ calls[c].pollId = Poll1 /\ calls[c].emoji = ThumbsUp
        /\ calls[c].result = Failure(MsgLogin)

(***************************************************************************)
(* C6: a call by an authenticated user with a pollId that is not           *)
(* UUID-shaped returns success: false with a validation message and issues *)
(* no find and no insert.                                                  *)
(***************************************************************************)
C6_MalformedPollIdNoStoreCall ==
    \A c \in CallIds :
        (calls[c].pc # "idle" /\ calls[c].user # NULL /\ calls[c].pollId \in MalformedPollIds) =>
            /\ Done(c)
            /\ ~calls[c].result.success
            /\ calls[c].result.error \in ValidationMessages
            /\ calls[c].finds = 0 /\ calls[c].inserts = 0

C6_Witness ==
    \E c \in CallIds :
        /\ Done(c) /\ calls[c].user # NULL
        /\ calls[c].pollId = BadHex /\ calls[c].emoji = ThumbsUp
        /\ calls[c].result.error \in ValidationMessages

(***************************************************************************)
(* C7: a call that has no session and also has a malformed pollId or an    *)
(* emoji that is not one character returns the 'must be logged in' failure *)
(* and not a validation message.                                           *)
(***************************************************************************)
C7_SessionCheckedBeforeValidation ==
    \A c \in CallIds :
        (/\ Done(c) /\ calls[c].user = NULL
         /\ calls[c].pollId \in MalformedPollIds \/ calls[c].emoji \in InvalidEmojis)
        => /\ calls[c].result.error = MsgLogin
           /\ calls[c].result.error \notin ValidationMessages

C7_Witness ==
    \E c \in CallIds :
        /\ Done(c) /\ calls[c].user = NULL
        /\ calls[c].pollId \in MalformedPollIds /\ calls[c].emoji \in InvalidEmojis
        /\ calls[c].result.error = MsgLogin

(***************************************************************************)
(* C8: a call by a user who has a stored reaction with another emoji on    *)
(* the same existing poll, and none with this emoji, returns success and   *)
(* adds a row.                                                             *)
(***************************************************************************)
C8_DistinctEmojiAccepted ==
    \A c \in CallIds :
        (/\ Done(c) /\ RanWithoutFault(c) /\ calls[c].pollId \in PollIdsOf(polls)
         /\ calls[c].otherAtFind /\ calls[c].selectCode = "PGRST116")
        => calls[c].result = Success /\ calls[c].added = 1

(***************************************************************************)
(* C9: a call issues at most one find and at most one insert; a call that  *)
(* returned success issued one insert, which added one row; a call that    *)
(* returned failure added no row; the emoji rows in the table are as many  *)
(* as the calls that returned success.                                     *)
(***************************************************************************)
C9_OneInsertPerSuccess ==
    /\ \A c \in CallIds :
          /\ calls[c].finds <= 1 /\ calls[c].inserts <= 1
          /\ calls[c].inserts <= calls[c].finds
          /\ (Done(c) /\ calls[c].result.success) => calls[c].inserts = 1 /\ calls[c].added = 1
          /\ (Done(c) /\ ~calls[c].result.success) => calls[c].added = 0
    /\ EmojiRowCount = Cardinality({c \in CallIds : Done(c) /\ calls[c].result.success})

C9_Witness ==
    \E c, d \in CallIds :
        /\ Done(c) /\ calls[c].result.success /\ calls[c].added = 1
        /\ Done(d) /\ ~calls[d].result.success /\ calls[d].inserts = 1 /\ calls[d].added = 0
        /\ EmojiRowCount = 1

(***************************************************************************)
(* C10: a duplicate check answered with PGRST116 lets the call go on to    *)
(* the insert; a duplicate check answered with any other error ends the    *)
(* call with a failure and without an insert.                              *)
(***************************************************************************)
C10_OnlyNoRowsProceeds ==
    \A c \in CallIds :
        /\ (calls[c].finds = 1 /\ calls[c].selectCode = "PGRST116") =>
              \/ calls[c].pc = "insert" /\ calls[c].inserts = 0
              \/ Done(c) /\ calls[c].inserts = 1
        /\ (calls[c].finds = 1 /\ calls[c].selectCode \notin {NULL, "PGRST116"}) =>
              /\ Done(c) /\ ~calls[c].result.success
              /\ calls[c].inserts = 0 /\ calls[c].added = 0

C10_Witness ==
    \E c, d \in CallIds :
        /\ Done(c) /\ calls[c].selectCode = "PGRST116" /\ calls[c].inserts = 1
        /\ Done(d) /\ calls[d].selectCode = "FAULT" /\ calls[d].inserts = 0
        /\ ~calls[d].result.success

(***************************************************************************)
(* C11: the error text returned after a store failure does not depend on   *)
(* the message of the store: whatever message the failed find or insert    *)
(* carried, the call returns the fixed text for an unexpected error.       *)
(***************************************************************************)
C11_NoRawStoreMessage ==
    \A c \in CallIds :
        (Done(c) /\ (calls[c].selectCode = "FAULT" \/ calls[c].insertCode = "FAULT"))
        => calls[c].result = Failure(MsgUnexpected)

(***************************************************************************)
(* C12: a call invalidates the page /polls/<pollId> of its poll exactly    *)
(* when its insert added the row, and then it returns success; a call that *)
(* returned a failure invalidated nothing.                                 *)
(***************************************************************************)
C12_RevalidateIffInserted ==
    \A c \in CallIds :
        /\ calls[c].revalidated # <<>> <=> calls[c].added = 1
        /\ calls[c].revalidated # <<>> =>
              /\ calls[c].revalidated = << <<"/", "p", "o", "l", "l", "s", "/">> \o calls[c].pollId >>
              /\ Done(c) /\ calls[c].result = Success /\ calls[c].inserts = 1
        /\ (Done(c) /\ ~calls[c].result.success) => calls[c].revalidated = <<>>
        /\ (Done(c) /\ calls[c].result.success) => Len(calls[c].revalidated) = 1

C12_Witness ==
    \E c \in CallIds :
        /\ Done(c) /\ calls[c].result = Success /\ calls[c].added = 1
        /\ calls[c].pollId = Poll1
        /\ calls[c].revalidated = << <<"/", "p", "o", "l", "l", "s", "/">> \o Poll1 >>

(***************************************************************************)
(* C13: when the pollId is malformed and the emoji is not one character,   *)
(* an authenticated call returns the message of the identifier check.      *)
(***************************************************************************)
C13_IdentifierIssueFirst ==
    \A c \in CallIds :
        (/\ Done(c) /\ calls[c].user # NULL
         /\ calls[c].pollId \in MalformedPollIds /\ calls[c].emoji \in InvalidEmojis)
        => calls[c].result = Failure(MsgUuid)

C13_Witness ==
    \E c \in CallIds :
        /\ Done(c) /\ calls[c].user # NULL
        /\ calls[c].pollId = NotAUuid /\ calls[c].emoji = TwoLetters
        /\ calls[c].result = Failure(MsgUuid)

(***************************************************************************)
(* C14: with a valid pollId and a session, a content of one code point     *)
(* passes validation and reaches the store, while the empty content and a  *)
(* content of several code points are refused with 'Emoji must be a single *)
(* character.' before any store call.                                      *)
(***************************************************************************)
OneCodePoint == {ThumbsUp, Heart}

C14_ExactlyOneCharacter ==
    \A c \in CallIds :
        (calls[c].pc # "idle" /\ calls[c].user # NULL /\ calls[c].pollId \in {Poll1, Poll2}) =>
            /\ calls[c].emoji \in OneCodePoint =>
                  /\ calls[c].pc = "find" \/ calls[c].finds = 1
                  /\ calls[c].result.error \notin ValidationMessages
            /\ calls[c].emoji \in InvalidEmojis =>
                  /\ Done(c) /\ calls[c].result = Failure(MsgEmoji)
                  /\ calls[c].finds = 0 /\ calls[c].inserts = 0

C14_Witness ==
    \E c \in CallIds :
        /\ Done(c) /\ calls[c].user # NULL /\ calls[c].pollId = Poll1
        /\ calls[c].emoji = HeartVs16 /\ calls[c].result = Failure(MsgEmoji)


(***************************************************************************)
(* C15: whatever submitVote calls have run, the votes table holds at most  *)
(* one ballot vote per poll for each voter, the anonymous voter (user_id   *)
(* null) included.                                                         *)
(***************************************************************************)
BallotCount(pollId, userId) ==
    BagCardinality([r \in {x \in DOMAIN votes :
                               /\ x.type = NULL
                               /\ x.poll_id = pollId
                               /\ x.user_id = userId} |-> votes[r]])

OptionsOf(pollId) == {o \in poll_options : o.poll_id = pollId}

C16_EveryPollHasTwoOptions ==
    creation.pc \in {"idle", "done"} =>
        \A p \in polls : Cardinality(OptionsOf(p.id)) >= 2

(***************************************************************************)
(* C17: createPoll writes nothing unless the user is authenticated, the    *)
(* title is non-empty and at least two non-empty options are given.  When  *)
(* those hold the poll row is inserted first and the option rows second,   *)
(* with ordinals 0..n-1 in submitted order; when the insert of the options *)
(* fails the call returns an error and the poll row it inserted remains.   *)
(***************************************************************************)
TooFewOptions == {<<"A", "">>}

CreationRejected ==
    \/ creation.user = NULL
    \/ creation.question = ""
    \/ creation.options \in TooFewOptions

\* the submitted texts that are not empty, in submitted order
SubmittedTexts == SelectSeq(creation.options, LAMBDA t : t # "")

OptionsFailedTexts ==
    {MsgOptionsFailed \o m : m \in FaultMessages \cup {MsgRls, MsgForeignKey}}

C17_OrphanWitness ==
    /\ creation.pc = "done" /\ creation.pollsAdded = 1
    /\ creation.error \in OptionsFailedTexts
    /\ creation.pollId \in PollIdsOf(polls)

(***************************************************************************)
(* C18: deletePoll removes a poll only when the requester is the creator   *)
(* of that poll; a deletePoll by another user or without a session leaves  *)
(* the poll row, its options and its responses as they were.               *)
(***************************************************************************)
ResponsesOf(pollId) == {r \in DOMAIN votes : r.poll_id = pollId}

C18_OnlyCreatorDeletes ==
    (op.name = "deletePoll" /\ (op.user = NULL \/ op.user # op.owner)) =>
        /\ ~op.changed
        /\ op.cascaded = 0
        /\ op.owner # NULL => op.pollId \in PollIdsOf(polls)

\* a signed-in user who is not the creator asked to delete a poll that has
\* options and a response
C18_Witness ==
    /\ op.name = "deletePoll" /\ op.user # NULL /\ op.owner # NULL /\ op.user # op.owner
    /\ op.pollId \in PollIdsOf(polls)
    /\ Cardinality(OptionsOf(op.pollId)) = 2
    /\ ResponsesOf(op.pollId) # {}

(***************************************************************************)
(* C19: after any interleaving of createPoll, submitVote,                  *)
(* submitEmojiResponse and deletePoll, every option row and every response *)
(* row references a stored poll; a deletePoll that removes a poll removes  *)
(* all of its options and responses in the same step.                      *)
(***************************************************************************)
C19_NoDanglingReference ==
    /\ \A o \in poll_options : o.poll_id \in PollIdsOf(polls)
    /\ \A r \in DOMAIN votes :
          /\ r.poll_id \in PollIdsOf(polls)
          /\ r.option_id # NULL => r.option_id \in OptionIdsOf(poll_options)
    /\ (op.name = "deletePoll" /\ op.changed) =>
          /\ OptionsOf(op.pollId) = {}
          /\ ResponsesOf(op.pollId) = {}

\* the creator deleted a poll that had two options, a ballot and a reaction
C19_Witness ==
    /\ op.name = "deletePoll" /\ op.changed /\ op.cascaded = 4
    /\ op.pollId \notin PollIdsOf(polls)

(***************************************************************************)
(* C20: updatePoll changes a poll only when the authenticated requester is *)
(* the creator of that poll; a call by another user, without a session,    *)
(* with an empty question or with fewer than two non-empty options leaves  *)
(* every poll row unchanged.                                               *)
(***************************************************************************)
UpdateRejected ==
    \/ op.user = NULL
    \/ op.user # op.owner
    \/ op.input[1] = ""
    \/ op.input[2] \in TooFewOptions

C20_OnlyCreatorUpdates ==
    (op.name = "updatePoll" /\ UpdateRejected) => ~op.changed

\* a signed-in user who is not the creator sent a valid form for a stored
\* poll, the store call did not fail, and the poll row is as it was
C20_Witness ==
    /\ op.name = "updatePoll" /\ op.user # NULL /\ op.owner # NULL /\ op.user # op.owner
    /\ op.input = <<"Q", <<"B", "", "A">>>>
    /\ op.error = NULL /\ ~op.changed

(***************************************************************************)
(* C21: no submitEmojiResponse, submitVote, createPoll or updatePoll call  *)
(* modifies or removes a stored response row: the set of response rows of  *)
(* a poll only grows while the poll exists.                                *)
(***************************************************************************)
C21_ResponsesOnlyGrow ==
    [][\A r \in DOMAIN votes :
           r.poll_id \in PollIdsOf(polls') =>
               /\ r \in DOMAIN votes'
               /\ CopiesIn(r, votes') >= CopiesIn(r, votes)]_vars

\* the part of C21 about the four calls: a step that removes no poll, which
\* is every step of theirs, keeps every response row
C21_FourCallsKeepRows ==
    [][PollIdsOf(polls) \subseteq PollIdsOf(polls') =>
           \A r \in DOMAIN votes :
               /\ r \in DOMAIN votes'
               /\ CopiesIn(r, votes') >= CopiesIn(r, votes)]_vars

\* a stored poll holds a ballot cast for an option of another poll
C21_BallotForForeignOption ==
    \E r \in DOMAIN votes, o \in poll_options :
        /\ r.option_id = o.id /\ o.poll_id # r.poll_id
        /\ r.poll_id \in PollIdsOf(polls)

(***************************************************************************)
(* C22: login reveals nothing about why authentication failed: whatever    *)
(* the provider's error (unknown email, wrong password, any other), two    *)
(* failing attempts return the same {error: 'Invalid email or password.'}  *)
(* and the login page displays exactly that text.                          *)
(***************************************************************************)
C22_LoginFailuresAlike ==
    \A i, j \in PageIds :
        (logins[i].pc = "failed" /\ logins[j].pc = "failed") =>
            /\ logins[i].result = logins[j].result
            /\ logins[i].result = [error |-> "Invalid email or password."]
            /\ logins[i].error = "Invalid email or password."

\* an unknown email on one page, a known account the provider refuses for
\* another reason on the other
C22_Witness ==
    \E i, j \in PageIds :
        /\ logins[i].pc = "failed" /\ logins[i].email = "bob@x"
        /\ logins[i].cause = "invalid_credentials"
        /\ logins[j].pc = "failed" /\ logins[j].email = "ann@x" /\ logins[j].password = "pw"
        /\ logins[j].cause = "email_not_confirmed"

(***************************************************************************)
(* C23: on the registration page the message shown after a sign-up whose   *)
(* passwords match does not depend on whether the email was registered     *)
(* before: two runs that differ only in that show the same message.        *)
(***************************************************************************)
SignedUp(i) ==
    /\ signups[i].pc = "done"
    /\ signups[i].password = signups[i].confirmPassword
    /\ signups[i].code \in {NULL, "user_already_exists"}

C23_SameMessageWhetherRegistered ==
    \A i, j \in PageIds :
        (/\ SignedUp(i) /\ SignedUp(j)
         /\ signups[i].email = signups[j].email
         /\ signups[i].password = signups[j].password
         /\ ~signups[i].existed /\ signups[j].existed)
        => /\ signups[i].error = signups[j].error
           /\ signups[i].success = signups[j].success

(***************************************************************************)
(* C24: after any sequence of addOption, removeOption and                  *)
(* handleOptionChange events on PollCreateForm, several removeOption       *)
(* events handled before the next render included, the options list has at *)
(* least two entries.                                                      *)
(***************************************************************************)
C24_AtLeastTwoOptions == Len(form.options) >= 2

(***************************************************************************)
(* C25: PollCreateForm prevents double submission: no createPoll call is   *)
(* started from the form while an earlier one is pending or after one has  *)
(* succeeded, so one form creates at most one poll.                        *)
(***************************************************************************)
C25_NoDoubleSubmission ==
    /\ ~form.overlapped
    /\ form.created <= 1

(***************************************************************************)
(* C30: in PollCreateForm the error message and the success message are    *)
(* never set together: success = true implies error = null, overlapping    *)
(* submissions included.                                                   *)
(***************************************************************************)
C30_SuccessWithoutError == form.success => form.error = NULL

\* C30 for the forms whose submissions never overlapped
C30_WithoutOverlap == (form.success /\ ~form.overlapped) => form.error = NULL

(***************************************************************************)
(* C26: updateSession redirects a request to /login exactly when the       *)
(* session lookup completed without error, returned no user, and the path  *)
(* starts with neither /login nor /auth; it never redirects a path that    *)
(* starts with /login or /auth, and lets the request through when the      *)
(* lookup returns an error or throws.                                      *)
(***************************************************************************)
\* the inputs whose text starts with "/login" or "/auth"
UnderLoginOrAuth ==
    {PathLogin, PathLoginReset, PathLoginx, PathAuth, PathAuthCallback, PathAuthors}

C26_RedirectWitness ==
    /\ request.pc = "responded" /\ request.lookup = "nouser"
    /\ request.path = PathLog /\ request.response = "redirect /login"

(***************************************************************************)
(* C27: every submitEmojiResponse call ends by returning a result object   *)
(* and never by throwing, whatever step fails; the result is either        *)
(* {success: true} without error or {success: false} with a non-empty      *)
(* error string.                                                           *)
(***************************************************************************)
Ended(c) == calls[c].pc \notin {"idle", "find", "insert"}

WellFormedResult(result) ==
    \/ result = Success
    \/ /\ ~result.success
       /\ result.error \notin {NULL, "", "pending"}

C27_AlwaysReturnsResult ==
    \A c \in CallIds :
        Ended(c) => /\ calls[c].pc = "done"
                    /\ WellFormedResult(calls[c].result)

\* C27 for the calls whose session lookup did not throw
C27_ReturnsResultAfterLookup ==
    \A c \in CallIds :
        (Ended(c) /\ calls[c].pc # "thrown") => WellFormedResult(calls[c].result)

(***************************************************************************)
(* C28: every row written by submitEmojiResponse carries the non-null user *)
(* of the session, the submitted pollId, the submitted emoji as content    *)
(* and type 'emoji'; a row with a null user reference can only come from   *)
(* submitVote.                                                             *)
(***************************************************************************)
C28_ResponseRowShape ==
    /\ \A c \in CallIds :
          calls[c].added = 1 =>
              /\ calls[c].user \in Users
              /\ EmojiRow(c) \in DOMAIN votes
    /\ \A r \in DOMAIN votes :
          /\ r.type = "emoji" =>
                /\ r.user_id \in Users
                /\ \E c \in CallIds : calls[c].added = 1 /\ r = EmojiRow(c)
          /\ r.user_id = NULL => (r.type = NULL /\ r.content = <<>> /\ r.option_id # NULL)
    /\ EmojiRowCount = Cardinality({c \in CallIds : calls[c].added = 1})

\* a reaction of one user beside a ballot of the other
C28_Witness ==
    /\ \E c \in CallIds : calls[c].added = 1 /\ EmojiRow(c) \in DOMAIN votes
    /\ \E r \in DOMAIN votes : r.type = NULL /\ r.option_id # NULL

(***************************************************************************)
(* C29: whenever deletePoll(id) returns {error: null}, no poll with that   *)
(* id is left in the store: a call that removed nothing, such as the call  *)
(* of a user who did not create the poll, does not report success.         *)
(***************************************************************************)
C29_DeleteSuccessMeansGone ==
    (op.name = "deletePoll" /\ op.error = NULL) =>
        /\ op.pollId \notin PollIdsOf(polls)
        /\ op.changed

\* The part of C29 that holds: a delete that the creator of the poll issued
\* and that returned {error: null} left no poll with that id.
C29_CreatorDeleteRemoves ==
    (op.name = "deletePoll" /\ op.error = NULL /\ op.owner # NULL /\ op.user = op.owner) =>
        /\ op.pollId \notin PollIdsOf(polls)
        /\ op.changed

\* a deletePoll of another user's poll that returned {error: null}
C29_ForeignDeleteReportsSuccess ==
    /\ op.name = "deletePoll" /\ op.error = NULL
    /\ op.owner # NULL /\ op.user # op.owner
    /\ op.pollId \in PollIdsOf(polls)

=========================================================================
